---- MODULE Spec2Model ----
(***************************************************************************)
(* Student grade backend: src/server.js (the service with upload history)  *)
(* and src/unnamed/part_000 (the second server file of the repository,     *)
(* same routes on the same Student collection, no upload history).         *)
(*                                                                         *)
(* JavaScript values are records [t, n, s]: t is the type tag, n the       *)
(* numeric payload, s the text payload.  A text that is the decimal        *)
(* numeral of n is [t |-> "string", n |-> n, s |-> "#"].  A percentage is  *)
(* carried in hundredths (80.00 is 8000), every other number in units.     *)
(***************************************************************************)
EXTENDS Integers, Sequences, FiniteSets, TLC

\* Bounds of the model.
MaxRows == 2
MaxUploads == 2
MaxEdits == 1
MaxMark == 6

-----------------------------------------------------------------------------
\* JavaScript values and the coercions the handlers apply to them.

Undefined == [t |-> "undefined", n |-> 0, s |-> ""]
NaN == [t |-> "NaN", n |-> 0, s |-> ""]
Infinity == [t |-> "Infinity", n |-> 0, s |-> ""]
Num(k) == [t |-> "number", n |-> k, s |-> ""]
Numeral(k) == [t |-> "string", n |-> k, s |-> "#"]
Text(w) == [t |-> "string", n |-> 0, s |-> w]

\* ToBoolean, as the || operator applies it to its left operand.
Truthy(x) ==
  CASE x.t = "undefined" -> FALSE
    [] x.t = "NaN" -> FALSE
    [] x.t = "Infinity" -> TRUE
    [] x.t = "number" -> x.n # 0
    [] x.t = "string" -> x.s # ""

\* a || b
Or(a, b) == IF Truthy(a) THEN a ELSE b

\* Number(x)
ToNumber(x) ==
  CASE x.t = "undefined" -> NaN
    [] x.t = "NaN" -> NaN
    [] x.t = "Infinity" -> Infinity
    [] x.t = "number" -> x
    [] x.t = "string" ->
         IF x.s = "#" THEN Num(x.n) ELSE IF x.s = "" THEN Num(0) ELSE NaN

\* String(x)
StringOf(x) ==
  CASE x.t = "undefined" -> Text("undefined")
    [] x.t = "NaN" -> Text("NaN")
    [] x.t = "Infinity" -> Text("Infinity")
    [] x.t = "number" -> Numeral(x.n)
    [] x.t = "string" -> x

\* Number((marksObtained / totalMarks * 100).toFixed(2)), in hundredths, for
\* operands that are NaN or non-negative finite numbers: x/0 is Infinity, 0/0
\* is NaN, toFixed rounds to the nearest hundredth (a tie goes up).
Percentage(marksObtained, totalMarks) ==
  LET a == ToNumber(marksObtained)
      b == ToNumber(totalMarks)
  IN  IF a.t = "NaN" \/ b.t = "NaN" THEN NaN
      ELSE IF b.n = 0 THEN (IF a.n = 0 THEN NaN ELSE Infinity)
      ELSE Num((2 * 10000 * a.n + b.n) \div (2 * b.n))

-----------------------------------------------------------------------------
\* Record Normalizer.  A parsed row is a function from the column names it
\* carries to cell values; a column it lacks reads as undefined.

Cell(row, key) == IF key \in DOMAIN row THEN row[key] ELSE Undefined

\* The body of data.map(row => ...) in processExcelFile and processCSVFile
\* of server.js (the two bodies are the same text).
NormalizeRow(row) ==
  LET totalMarks == ToNumber(Or(Or(Cell(row, "Total_Marks"), Cell(row, "total_marks")),
                                Cell(row, "Total Marks")))
      marksObtained == ToNumber(Or(Or(Cell(row, "Marks_Obtained"), Cell(row, "marks_obtained")),
                                   Cell(row, "Marks Obtained")))
  IN  [student_id |-> StringOf(Or(Or(Cell(row, "Student_ID"), Cell(row, "student_id")),
                                  Cell(row, "Student ID"))),
       student_name |-> StringOf(Or(Or(Cell(row, "Student_Name"), Cell(row, "student_name")),
                                    Cell(row, "Student Name"))),
       total_marks |-> totalMarks,
       marks_obtained |-> marksObtained,
       percentage |-> Percentage(marksObtained, totalMarks)]

\* The body of data.map(row => ...) in part_000: two spellings per field, no
\* String(), the percentage divided from the raw cells.
NormalizeRow0(row) ==
  [student_id |-> Or(Cell(row, "Student_ID"), Cell(row, "student_id")),
   student_name |-> Or(Cell(row, "Student_Name"), Cell(row, "student_name")),
   total_marks |-> ToNumber(Or(Cell(row, "Total_Marks"), Cell(row, "total_marks"))),
   marks_obtained |-> ToNumber(Or(Cell(row, "Marks_Obtained"), Cell(row, "marks_obtained"))),
   percentage |-> Percentage(Or(Cell(row, "Marks_Obtained"), Cell(row, "marks_obtained")),
                             Or(Cell(row, "Total_Marks"), Cell(row, "total_marks")))]

\* A file is [mimetype, corrupt, rows]: rows is what the parser yields from the
\* buffer, corrupt says the spreadsheet parser throws on it.
\* xlsx.read throws on a corrupt workbook; the catch rethrows a generic error.
processExcelFile(file) ==
  IF file.corrupt
    THEN [threw |-> TRUE, message |-> "Failed to process Excel file", data |-> <<>>]
    ELSE [threw |-> FALSE, message |-> "", data |-> [i \in 1..Len(file.rows) |-> NormalizeRow(file.rows[i])]]

\* Papa.parse reports malformed input in parsed.errors and does not throw.
processCSVFile(file) ==
  [threw |-> FALSE, message |-> "", data |-> [i \in 1..Len(file.rows) |-> NormalizeRow(file.rows[i])]]

processExcelFile0(file) ==
  IF file.corrupt
    THEN [threw |-> TRUE, message |-> "Failed to process file", data |-> <<>>]
    ELSE [threw |-> FALSE, message |-> "", data |-> [i \in 1..Len(file.rows) |-> NormalizeRow0(file.rows[i])]]

processCSVFile0(file) ==
  [threw |-> FALSE, message |-> "", data |-> [i \in 1..Len(file.rows) |-> NormalizeRow0(file.rows[i])]]

-----------------------------------------------------------------------------
\* State.

VARIABLES
  app,         \* the server file that is running: "server.js" or "part_000"
  students,    \* the Student collection: a set of documents
  history,     \* the UploadHistory collection, in insertion order
  readyState,  \* mongoose.connection.readyState: 0 disconnected, 1 connected, 2 connecting
  up,          \* the upload requests: position in the handler, req.file, studentsData, response
  edits,       \* how many PUT and DELETE requests were handled so far
  res,         \* the PUT or DELETE request answered by the latest step (route, what its id names, whether
               \* its student_id is another record's) and the status it was answered with
  input,       \* SpecNormalize: the parsed row under normalization
  output       \* SpecNormalize: the normalized record

vars == <<app, students, history, readyState, up, edits, res, input, output>>

\* No PUT or DELETE request was answered by the latest step.
NoResponse == [op |-> "", id |-> "", dup |-> FALSE, status |-> 0]

Requests == 1..MaxUploads

xlsxType == "application/vnd.openxmlformats-officedocument.spreadsheetml.sheet"
csvType == "text/csv"
xlsType == "application/vnd.ms-excel"
pdfType == "application/pdf"

\* allowedTypes of the multer fileFilter.
allowedTypes == {xlsxType, csvType, xlsType}

\* mimetype.includes(word), for the media types and words the handlers use.
Includes(mimetype, word) ==
  <<mimetype, word>> \in {<<xlsxType, "sheet">>, <<xlsType, "excel">>, <<csvType, "csv">>}

\* limits.fileSize of multer, in bytes.
fileSizeLimit == 5 * 1024 * 1024

NoFile == [mimetype |-> "", corrupt |-> FALSE, size |-> 0, rows |-> <<>>]

\* req.file.mimetype.includes('csv') ? 'CSV' : 'Excel'
FileType(mimetype) == IF Includes(mimetype, "csv") THEN "CSV" ELSE "Excel"

\* An ObjectId is [req, idx]: the upload request whose insertMany created the
\* document and the row's place in it.  Malformed is a route parameter that is
\* no ObjectId; NeverStored is an ObjectId no document was ever given.
Malformed == [req |-> 0, idx |-> 0]
NeverStored == [req |-> 0, idx |-> 1]
\* The route parameters tried: the ids of the stored documents, and one of
\* each kind that names none (an id whose document is gone acts as NeverStored).
IdParams == {d._id : d \in students} \cup {Malformed, NeverStored}

Idle == [pc |-> "idle", mimetype |-> "", size |-> 0, data |-> <<>>,
         message |-> "", status |-> 0, count |-> 0, overlapped |-> FALSE]

InFlight(r) == up[r].pc \notin {"idle", "done"}

-----------------------------------------------------------------------------
\* Persistence: the Student and UploadHistory models (mongoose over MongoDB).
\* A command issued while the connection is not in state 1 is buffered and
\* fails when the buffer times out; a failed command has changed nothing.

Connected == readyState = 1

\* Schema casting of a document: String fields are cast to strings.
CastDoc(doc) ==
  [doc EXCEPT !.student_id = IF @.t = "undefined" THEN @ ELSE StringOf(@),
              !.student_name = IF @.t = "undefined" THEN @ ELSE StringOf(@)]

\* studentSchema validation: the String paths are required (an empty string
\* does not satisfy required), the Number paths are required and NaN does not
\* cast to Number.
ValidStudent(doc) ==
  /\ doc.student_id.t = "string" /\ doc.student_id.s # ""
  /\ doc.student_name.t = "string" /\ doc.student_name.s # ""
  /\ doc.total_marks.t \in {"number", "Infinity"}
  /\ doc.marks_obtained.t \in {"number", "Infinity"}
  /\ doc.percentage.t \in {"number", "Infinity"}

\* The unique index on student_id.
DuplicateKey(coll, student_id, except) ==
  \E d \in coll : d._id # except /\ d.student_id = student_id

StudentDoc(r, i, rec) ==
  [_id |-> [req |-> r, idx |-> i],
   student_id |-> rec.student_id, student_name |-> rec.student_name,
   total_marks |-> rec.total_marks, marks_obtained |-> rec.marks_obtained,
   percentage |-> rec.percentage]

\* A bulk insert into a collection without the unique index on student_id.
RECURSIVE InsertOrderedNoIndex(_, _, _, _)
InsertOrderedNoIndex(coll, r, docs, i) ==
  IF i > Len(docs) THEN [ok |-> TRUE, coll |-> coll]
  ELSE InsertOrderedNoIndex(coll \cup {StudentDoc(r, i, docs[i])}, r, docs, i + 1)

\* The ordered bulk insert: documents go in one by one and the first
\* duplicate key stops it, the documents before it staying inserted.
RECURSIVE InsertOrdered(_, _, _, _)
InsertOrdered(coll, r, docs, i) ==
  IF i > Len(docs) THEN [ok |-> TRUE, coll |-> coll]
  ELSE IF DuplicateKey(coll, docs[i].student_id, Malformed) THEN [ok |-> FALSE, coll |-> coll]
  ELSE InsertOrdered(coll \cup {StudentDoc(r, i, docs[i])}, r, docs, i + 1)

\* Student.insertMany(docs): every document is validated first and one
\* invalid document fails the call with nothing inserted.
insertMany(coll, r, docs) ==
  LET cast == [i \in 1..Len(docs) |-> CastDoc(docs[i])]
  IN  IF ~Connected THEN [ok |-> FALSE, coll |-> coll]
      ELSE IF \E i \in 1..Len(cast) : ~ValidStudent(cast[i]) THEN [ok |-> FALSE, coll |-> coll]
      ELSE InsertOrdered(coll, r, cast, 1)

\* A deleteMany that acknowledges and removes nothing.
deleteManyNothing(coll) == [ok |-> Connected, coll |-> coll]

\* Student.deleteMany({})
deleteMany(coll) == IF Connected THEN [ok |-> TRUE, coll |-> {}] ELSE [ok |-> FALSE, coll |-> coll]

\* An entry left to the schema's default status, 'success'.
HistoryEntryDefaultStatus(r, mimetype, size, count, status) ==
  [req |-> r, file_type |-> FileType(mimetype), students_count |-> count,
   file_size |-> size, status |-> "success"]

\* The UploadHistory document of request r (req stands for its _id).
HistoryEntry(r, mimetype, size, count, status) ==
  [req |-> r, file_type |-> FileType(mimetype), students_count |-> count,
   file_size |-> size, status |-> status]

\* UploadHistory.create(entry)
create(hist, entry) ==
  IF Connected THEN [ok |-> TRUE, hist |-> Append(hist, entry)] ELSE [ok |-> FALSE, hist |-> hist]

\* castUpdate: a Number path given NaN is a CastError.
CastUpdateThrows(update) ==
  \E f \in {"total_marks", "marks_obtained", "percentage"} : update[f].t = "NaN"

\* The document with the update's defined paths set, cast by the schema.
ApplyUpdate(doc, update) ==
  [f \in DOMAIN doc |->
     IF f = "_id" \/ update[f].t = "undefined" THEN doc[f]
     ELSE IF f \in {"student_id", "student_name"} THEN StringOf(update[f])
     ELSE ToNumber(update[f])]

\* Student.findByIdAndUpdate(id, update, { new: true }): threw, or the
\* document was not found (null), or it was updated.
findByIdAndUpdate(coll, id, update) ==
  IF id = Malformed \/ CastUpdateThrows(update) \/ ~Connected
    THEN [threw |-> TRUE, found |-> FALSE, coll |-> coll]
  ELSE IF ~\E d \in coll : d._id = id
    THEN [threw |-> FALSE, found |-> FALSE, coll |-> coll]
  ELSE LET d == CHOOSE x \in coll : x._id = id
           new == ApplyUpdate(d, update)
       IN  IF DuplicateKey(coll, new.student_id, id)
             THEN [threw |-> TRUE, found |-> FALSE, coll |-> coll]
             ELSE [threw |-> FALSE, found |-> TRUE, coll |-> (coll \ {d}) \cup {new}]

\* Student.findByIdAndDelete(id)
findByIdAndDelete(coll, id) ==
  IF id = Malformed \/ ~Connected
    THEN [threw |-> TRUE, found |-> FALSE, coll |-> coll]
  ELSE IF ~\E d \in coll : d._id = id
    THEN [threw |-> FALSE, found |-> FALSE, coll |-> coll]
  ELSE [threw |-> FALSE, found |-> TRUE, coll |-> {d \in coll : d._id # id}]

-----------------------------------------------------------------------------
\* Inputs.

\* The cell of a number: numeric in a worksheet, text in a CSV file.
MarkCell(mimetype, k) == IF mimetype = csvType THEN Numeral(k) ELSE Num(k)

UploadRow(mimetype, id, marks) ==
  [Student_ID |-> Text(id), Student_Name |-> Text("Alice"),
   Total_Marks |-> MarkCell(mimetype, 100), Marks_Obtained |-> MarkCell(mimetype, marks)]

UploadRows(mimetype) == {UploadRow(mimetype, "S1", 80), UploadRow(mimetype, "S2", 0)}

SeqsUpTo(S, n) == UNION {[1..k -> S] : k \in 0..n}

\* What a request may carry in its multipart field "file".
Files ==
  {NoFile}
  \cup {[mimetype |-> pdfType, corrupt |-> FALSE, size |-> 1024, rows |-> <<>>]}
  \cup {[mimetype |-> xlsxType, corrupt |-> FALSE, size |-> fileSizeLimit + 1, rows |-> <<>>]}
  \cup {[mimetype |-> xlsxType, corrupt |-> TRUE, size |-> 1024, rows |-> <<>>]}
  \cup {[mimetype |-> xlsType, corrupt |-> FALSE, size |-> 1024,
          rows |-> <<UploadRow(xlsType, "S1", 80)>>]}
  \cup UNION {{[mimetype |-> m, corrupt |-> FALSE, size |-> 1024, rows |-> rows] :
                 rows \in SeqsUpTo(UploadRows(m), MaxRows)} : m \in {xlsxType, csvType}}

\* The JSON bodies of PUT /api/students/:id; an absent field is undefined.
Body(student_id, student_name, total_marks, marks_obtained, percentage) ==
  [student_id |-> student_id, student_name |-> student_name, total_marks |-> total_marks,
   marks_obtained |-> marks_obtained, percentage |-> percentage]

Bodies ==
  {Body(Undefined, Undefined, Undefined, Undefined, Undefined),
   Body(Undefined, Undefined, Num(50), Undefined, Undefined),
   Body(Undefined, Undefined, Undefined, Num(25), Undefined),
   Body(Undefined, Undefined, Undefined, Undefined, Num(9900)),
   Body(Undefined, Undefined, Num(50), Num(25), Undefined),
   Body(Undefined, Undefined, Num(50), Num(25), Num(9900)),
   Body(Undefined, Undefined, Num(0), Num(25), Undefined),
   Body(Text("S2"), Text("Bob"), Num(50), Numeral(25), Undefined)}

-----------------------------------------------------------------------------
\* Requests overlap when one is received or takes a step while the other is
\* between its receipt and its response.
Overlap(u, r) ==
  [q \in Requests |->
     IF (q # r /\ InFlight(q)) \/ (q = r /\ \E p \in Requests \ {r} : InFlight(p))
       THEN [u[q] EXCEPT !.overlapped = TRUE] ELSE u[q]]

\* The response ends the request; of the body the model keeps the message and count.
Respond(r, status, message, count) ==
  [pc |-> "done", mimetype |-> "", size |-> 0, data |-> <<>>,
   message |-> message, status |-> status, count |-> count, overlapped |-> up[r].overlapped]

\* error.message of a failed store command (the driver's text is not modelled).
storeError == "MongoError"

Throw(r, message) == [up[r] EXCEPT !.pc = "catch", !.message = message, !.data = <<>>]

-----------------------------------------------------------------------------
\* server.js: POST /api/upload.

\* The handler without its readyState check: a parsed file goes on to deleteMany.
UploadReceivedUnchecked(r, file) ==
  LET req == [up[r] EXCEPT !.mimetype = file.mimetype, !.size = file.size]
      excel == Includes(file.mimetype, "sheet") \/ Includes(file.mimetype, "excel")
      parsed == IF excel THEN processExcelFile(file) ELSE processCSVFile(file)
  IN  IF file # NoFile /\ file.mimetype \notin allowedTypes
        THEN [req EXCEPT !.pc = "done", !.status = 500, !.mimetype = "", !.size = 0,
                         !.message = "Invalid file type. Only Excel and CSV files allowed."]
      ELSE IF file # NoFile /\ file.size > fileSizeLimit
        THEN [req EXCEPT !.pc = "done", !.status = 500, !.mimetype = "", !.size = 0,
                         !.message = "File too large"]
      ELSE IF file = NoFile
        THEN [req EXCEPT !.pc = "done", !.status = 400, !.message = "No file uploaded"]
      ELSE IF ~excel /\ ~Includes(file.mimetype, "csv")
        THEN [req EXCEPT !.pc = "done", !.status = 400, !.mimetype = "", !.size = 0,
                         !.message = "Unsupported file format"]
      ELSE IF parsed.threw
        THEN [req EXCEPT !.pc = "catch", !.message = parsed.message]
      ELSE [req EXCEPT !.pc = "deleteMany", !.data = parsed.data]

\* multer (fileFilter, limits) and the handler up to its first await.
UploadReceived(r, file) ==
  LET req == [up[r] EXCEPT !.mimetype = file.mimetype, !.size = file.size]
      excel == Includes(file.mimetype, "sheet") \/ Includes(file.mimetype, "excel")
      parsed == IF excel THEN processExcelFile(file) ELSE processCSVFile(file)
  IN  IF file # NoFile /\ file.mimetype \notin allowedTypes
        THEN [req EXCEPT !.pc = "done", !.status = 500, !.mimetype = "", !.size = 0,
                         !.message = "Invalid file type. Only Excel and CSV files allowed."]
      ELSE IF file # NoFile /\ file.size > fileSizeLimit
        THEN [req EXCEPT !.pc = "done", !.status = 500, !.mimetype = "", !.size = 0,
                         !.message = "File too large"]
      ELSE IF file = NoFile
        THEN [req EXCEPT !.pc = "done", !.status = 400, !.message = "No file uploaded"]
      ELSE IF ~excel /\ ~Includes(file.mimetype, "csv")
        THEN [req EXCEPT !.pc = "done", !.status = 400, !.mimetype = "", !.size = 0,
                         !.message = "Unsupported file format"]
      ELSE IF parsed.threw
        THEN [req EXCEPT !.pc = "catch", !.message = parsed.message]
      ELSE IF readyState # 1
        THEN [req EXCEPT !.pc = "catch", !.message = "Database not connected"]
      ELSE [req EXCEPT !.pc = "deleteMany", !.data = parsed.data]

Upload(r) ==
  /\ app = "server.js" /\ up[r].pc = "idle"
  /\ \A q \in Requests : q < r => up[q].pc # "idle"
  /\ \E file \in Files : up' = Overlap([up EXCEPT ![r] = UploadReceived(r, file)], r)
  /\ UNCHANGED <<app, students, history, readyState, edits, input, output>>
  /\ res' = NoResponse

\* await Student.deleteMany({})
UploadDeleteMany(r) ==
  /\ app = "server.js" /\ up[r].pc = "deleteMany"
  /\ LET d == deleteMany(students)
     IN  /\ students' = d.coll
         /\ up' = Overlap([up EXCEPT ![r] = IF d.ok THEN [@ EXCEPT !.pc = "insertMany"]
                                            ELSE Throw(r, storeError)], r)
  /\ UNCHANGED <<app, history, readyState, edits, input, output>>
  /\ res' = NoResponse

\* await Student.insertMany(studentsData)
UploadInsertMany(r) ==
  /\ app = "server.js" /\ up[r].pc = "insertMany"
  /\ LET d == insertMany(students, r, up[r].data)
     IN  /\ students' = d.coll
         /\ up' = Overlap([up EXCEPT ![r] = IF d.ok THEN [@ EXCEPT !.pc = "create"]
                                            ELSE Throw(r, storeError)], r)
  /\ UNCHANGED <<app, history, readyState, edits, input, output>>
  /\ res' = NoResponse

\* await UploadHistory.create({... status: 'success'}), then res.json(...)
UploadCreateHistory(r) ==
  /\ app = "server.js" /\ up[r].pc = "create"
  /\ LET h == create(history, HistoryEntry(r, up[r].mimetype, up[r].size,
                                           Len(up[r].data), "success"))
     IN  /\ history' = h.hist
         /\ up' = Overlap([up EXCEPT ![r] =
                             IF h.ok THEN Respond(r, 200, "File uploaded successfully", Len(up[r].data))
                             ELSE Throw(r, storeError)], r)
  /\ UNCHANGED <<app, students, readyState, edits, input, output>>
  /\ res' = NoResponse

\* A catch that answers 500 and writes no history entry.
UploadCatchNoHistory(r) ==
  /\ app = "server.js" /\ up[r].pc = "catch"
  /\ up' = Overlap([up EXCEPT ![r] = Respond(r, 500, up[r].message, 0)], r)
  /\ res' = NoResponse
  /\ UNCHANGED <<app, students, history, readyState, edits, input, output>>

\* catch (error): the best-effort 'error' history entry, then the 500.
UploadCatch(r) ==
  /\ app = "server.js" /\ up[r].pc = "catch"
  /\ LET h == IF up[r].mimetype # ""
                THEN create(history, HistoryEntry(r, up[r].mimetype, up[r].size, 0, "error"))
                ELSE [ok |-> FALSE, hist |-> history]
     IN  /\ history' = h.hist
         /\ up' = Overlap([up EXCEPT ![r] = Respond(r, 500, up[r].message, 0)], r)
  /\ UNCHANGED <<app, students, readyState, edits, input, output>>
  /\ res' = NoResponse

-----------------------------------------------------------------------------
\* server.js: the list, update and delete handlers.  Each awaits one command,
\* so each is one step.

\* What the route parameter names when the request is handled.
IdKind(id) == IF id = Malformed THEN "malformed" ELSE IF \E d \in students : d._id = id THEN "stored" ELSE "missing"

\* The body's student_id is the student_id of a record other than id's.
TakenByAnother(id, body) ==
  /\ IdKind(id) = "stored"
  /\ body.student_id # Undefined
  /\ DuplicateKey(students, StringOf(body.student_id), id)

Response(op, id, dup, status) == [op |-> op, id |-> id, dup |-> dup, status |-> status]

\* The upload requests in flight overlap a write to a student.
OverlapAll(u) == [q \in Requests |-> IF InFlight(q) THEN [u[q] EXCEPT !.overlapped = TRUE] ELSE u[q]]

\* GET /api/students: 500 when the connection is not in state 1, else the
\* documents (the order, created_at descending, is not modelled).
GetStudentsResponse ==
  IF readyState # 1 THEN [status |-> 500, body |-> {}] ELSE [status |-> 200, body |-> students]

\* .limit(10) of GET /api/upload-history
historyLimit == 10

\* GET /api/upload-history: the latest entries first, at most historyLimit.
GetUploadHistoryResponse ==
  LET n == IF Len(history) < historyLimit THEN Len(history) ELSE historyLimit
  IN  IF readyState # 1 THEN [status |-> 500, body |-> <<>>]
      ELSE [status |-> 200, body |-> [i \in 1..n |-> history[Len(history) + 1 - i]]]

\* The list handlers read and write nothing.
GetStudents ==
  /\ app = "server.js"
  /\ GetStudentsResponse.status \in {200, 500}
  /\ UNCHANGED vars

GetUploadHistory ==
  /\ app = "server.js"
  /\ GetUploadHistoryResponse.status \in {200, 500}
  /\ UNCHANGED vars

\* An update that keeps the percentage the body carries.
UpdateOfBodyTrusting(body) ==
  IF body.percentage.t = "undefined"
    THEN [body EXCEPT !.percentage = Percentage(body.marks_obtained, body.total_marks)]
    ELSE body

\* const percentage = Number((marks_obtained / total_marks * 100).toFixed(2))
\* and { ...req.body, percentage }
UpdateOfBody(body) ==
  [body EXCEPT !.percentage = Percentage(body.marks_obtained, body.total_marks)]

UpdateStudent(id, body) ==
  LET student == findByIdAndUpdate(students, id, UpdateOfBody(body))
  IN  /\ app = "server.js" /\ edits < MaxEdits
      /\ students' = student.coll
      /\ res' = Response("PUT", IdKind(id), TakenByAnother(id, body),
                       IF student.threw THEN 500 ELSE IF ~student.found THEN 404 ELSE 200)
      /\ up' = OverlapAll(up)
      /\ edits' = edits + 1
      /\ UNCHANGED <<app, history, readyState, input, output>>

DeleteStudent(id) ==
  LET student == findByIdAndDelete(students, id)
  IN  /\ app = "server.js" /\ edits < MaxEdits
      /\ students' = student.coll
      /\ res' = Response("DELETE", IdKind(id), FALSE,
                       IF student.threw THEN 500 ELSE IF ~student.found THEN 404 ELSE 200)
      /\ up' = OverlapAll(up)
      /\ edits' = edits + 1
      /\ UNCHANGED <<app, history, readyState, input, output>>

-----------------------------------------------------------------------------
\* part_000: the same routes, without upload history, without the readyState
\* checks and without the not-found answers.

Upload0Received(r, file) ==
  LET req == [up[r] EXCEPT !.mimetype = file.mimetype, !.size = file.size]
      excel == Includes(file.mimetype, "sheet") \/ Includes(file.mimetype, "excel")
      parsed == IF excel THEN processExcelFile0(file) ELSE processCSVFile0(file)
  IN  IF file # NoFile /\ file.mimetype \notin allowedTypes
        THEN [req EXCEPT !.pc = "done", !.status = 500, !.mimetype = "", !.size = 0,
                         !.message = "Invalid file type. Only Excel and CSV files allowed."]
      ELSE IF file = NoFile
        THEN [req EXCEPT !.pc = "done", !.status = 400, !.message = "No file uploaded"]
      ELSE IF ~excel /\ ~Includes(file.mimetype, "csv")
        THEN [req EXCEPT !.pc = "done", !.status = 400, !.mimetype = "", !.size = 0,
                         !.message = "Unsupported file format"]
      ELSE IF parsed.threw
        THEN [req EXCEPT !.pc = "done", !.status = 500, !.mimetype = "", !.size = 0,
                         !.message = "Failed to process file"]
      ELSE [req EXCEPT !.pc = "deleteMany", !.data = parsed.data]

Upload0(r) ==
  /\ app = "part_000" /\ up[r].pc = "idle"
  /\ \A q \in Requests : q < r => up[q].pc # "idle"
  /\ \E file \in Files : up' = Overlap([up EXCEPT ![r] = Upload0Received(r, file)], r)
  /\ UNCHANGED <<app, students, history, readyState, edits, input, output>>
  /\ res' = NoResponse

Upload0DeleteMany(r) ==
  /\ app = "part_000" /\ up[r].pc = "deleteMany"
  /\ LET d == deleteMany(students)
     IN  /\ students' = d.coll
         /\ up' = Overlap([up EXCEPT ![r] = IF d.ok THEN [@ EXCEPT !.pc = "insertMany"]
                                            ELSE Respond(r, 500, "Failed to process file", 0)], r)
  /\ UNCHANGED <<app, history, readyState, edits, input, output>>
  /\ res' = NoResponse

Upload0InsertMany(r) ==
  /\ app = "part_000" /\ up[r].pc = "insertMany"
  /\ LET d == insertMany(students, r, up[r].data)
     IN  /\ students' = d.coll
         /\ up' = Overlap([up EXCEPT ![r] =
                             IF d.ok THEN Respond(r, 200, "File uploaded successfully", Len(up[r].data))
                             ELSE Respond(r, 500, "Failed to process file", 0)], r)
  /\ UNCHANGED <<app, history, readyState, edits, input, output>>
  /\ res' = NoResponse

\* GET /api/students: the find fails when the connection is down.
GetStudents0Response ==
  IF ~Connected THEN [status |-> 500, body |-> {}] ELSE [status |-> 200, body |-> students]

GetStudents0 ==
  /\ app = "part_000"
  /\ GetStudents0Response.status \in {200, 500}
  /\ UNCHANGED vars

\* res.json(student): a null student is answered with 200.
UpdateStudent0(id, body) ==
  LET student == findByIdAndUpdate(students, id, UpdateOfBody(body))
  IN  /\ app = "part_000" /\ edits < MaxEdits
      /\ students' = student.coll
      /\ res' = Response("PUT", IdKind(id), TakenByAnother(id, body),
                       IF student.threw THEN 500 ELSE 200)
      /\ up' = OverlapAll(up)
      /\ edits' = edits + 1
      /\ UNCHANGED <<app, history, readyState, input, output>>

DeleteStudent0(id) ==
  LET student == findByIdAndDelete(students, id)
  IN  /\ app = "part_000" /\ edits < MaxEdits
      /\ students' = student.coll
      /\ res' = Response("DELETE", IdKind(id), FALSE,
                       IF student.threw THEN 500 ELSE 200)
      /\ up' = OverlapAll(up)
      /\ edits' = edits + 1
      /\ UNCHANGED <<app, history, readyState, input, output>>

-----------------------------------------------------------------------------
\* The connection: mongoose.connect at startup, and the driver losing and
\* regaining the server afterwards.

ConnectionUp ==
  /\ readyState # 1
  /\ readyState' = 1
  /\ UNCHANGED <<app, students, history, up, edits, input, output>>
  /\ res' = NoResponse

ConnectionDown ==
  /\ readyState # 0
  /\ readyState' = 0
  /\ UNCHANGED <<app, students, history, up, edits, input, output>>
  /\ res' = NoResponse

-----------------------------------------------------------------------------
\* The service.

NoInput == [mimetype |-> "", total |-> 0, marks |-> 0, row |-> <<>>]

Init ==
  /\ app \in {"server.js", "part_000"}
  /\ students = {}
  /\ history = <<>>
  /\ readyState = 2
  /\ up = [r \in Requests |-> Idle]
  /\ edits = 0
  /\ res = NoResponse
  /\ input = NoInput
  /\ output = <<>>

Next ==
  \/ \E r \in Requests : Upload(r)
  \/ \E r \in Requests : UploadDeleteMany(r)
  \/ \E r \in Requests : UploadInsertMany(r)
  \/ \E r \in Requests : UploadCreateHistory(r)
  \/ \E r \in Requests : UploadCatch(r)
  \/ GetStudents
  \/ GetUploadHistory
  \/ \E id \in IdParams, body \in Bodies : UpdateStudent(id, body)
  \/ \E id \in IdParams : DeleteStudent(id)
  \/ \E r \in Requests : Upload0(r)
  \/ \E r \in Requests : Upload0DeleteMany(r)
  \/ \E r \in Requests : Upload0InsertMany(r)
  \/ GetStudents0
  \/ \E id \in IdParams, body \in Bodies : UpdateStudent0(id, body)
  \/ \E id \in IdParams : DeleteStudent0(id)
  \/ ConnectionUp
  \/ ConnectionDown

Spec == Init /\ [][Next]_vars

-----------------------------------------------------------------------------
\* The normalizer on its own: one parsed row, under every spelling of the two
\* marks columns, through processExcelFile (numeric cells) or processCSVFile
\* (text cells).

TotalKeys == {"Total_Marks", "total_marks", "Total Marks"}
MarksKeys == {"Marks_Obtained", "marks_obtained", "Marks Obtained"}

NormRow(mimetype, tk, mk, total, marks) ==
  (tk :> MarkCell(mimetype, total)) @@ (mk :> MarkCell(mimetype, marks))
    @@ [Student_ID |-> Text("S1"), Student_Name |-> Text("Alice")]

NormInputs ==
  {[mimetype |-> m, total |-> t, marks |-> k, row |-> NormRow(m, tk, mk, t, k)] :
     m \in {xlsxType, csvType}, tk \in TotalKeys, mk \in MarksKeys,
     t \in 1..MaxMark, k \in 0..MaxMark}

InputFile == [mimetype |-> input.mimetype, corrupt |-> FALSE, size |-> 1024, rows |-> <<input.row>>]

InitNormalize ==
  /\ app = "server.js"
  /\ students = {}
  /\ history = <<>>
  /\ readyState = 2
  /\ up = [r \in Requests |-> Idle]
  /\ edits = 0
  /\ res = NoResponse
  /\ input \in NormInputs
  /\ output = <<>>

NormalizeExcel ==
  /\ output = <<>> /\ Includes(input.mimetype, "sheet")
  /\ output' = processExcelFile(InputFile).data
  /\ UNCHANGED <<app, students, history, readyState, up, edits, res, input>>

NormalizeCSV ==
  /\ output = <<>> /\ Includes(input.mimetype, "csv")
  /\ output' = processCSVFile(InputFile).data
  /\ UNCHANGED <<app, students, history, readyState, up, edits, res, input>>

NextNormalize == NormalizeExcel \/ NormalizeCSV

SpecNormalize == InitNormalize /\ [][NextNormalize]_vars

-----------------------------------------------------------------------------
\* Properties.

\* p, in hundredths, is marks / total * 100 rounded to two decimals.
IsRounded(p, marks, total) ==
  /\ p.t = "number"
  /\ 2 * (p.n * total - 10000 * marks) <= total
  /\ 2 * (10000 * marks - p.n * total) <= total

\* C6: every parsed row with total_marks > 0 and marks_obtained a number,
\* 0 included, normalizes to a record with the row's marks_obtained and
\* total_marks and with percentage = round(marks_obtained / total_marks * 100, 2),
\* in the spreadsheet path and in the CSV path, under every column spelling.
C6_NormalizedRow ==
  output # <<>> =>
    /\ Len(output) = 1
    /\ output[1].total_marks = Num(input.total)
    /\ output[1].marks_obtained = Num(input.marks)
    /\ IsRounded(output[1].percentage, input.marks, input.total)

\* The history entries written for upload request r.
EntriesOf(hist, r) == {i \in 1..Len(hist) : hist[i].req = r}

\* The documents upload request r's insertMany created.
DocsOf(coll, r) == {d \in coll : d._id.req = r}

\* The request answered from the handler with req.file present: the success
\* response, or the 500 of the handler's catch.
multerMessages == {"Invalid file type. Only Excel and CSV files allowed.", "File too large"}
AnsweredWithFile(r) ==
  /\ up[r].pc = "done"
  /\ up[r].status \in {200, 500}
  /\ up[r].message \notin multerMessages

\* Request r takes the step that sends its response.
Responds(r) == up[r].pc # "done" /\ up'[r].pc = "done"

\* C1: when an upload that overlapped no other request answers with success
\* for N normalized rows, the collection holds exactly those N records, all
\* of them created by this upload.
C1_ReplaceSemantics ==
  [][\A r \in Requests :
       (Responds(r) /\ up'[r].status = 200 /\ ~up'[r].overlapped) =>
         /\ students' = {StudentDoc(r, i, CastDoc(up[r].data[i])) : i \in 1..Len(up[r].data)}
         /\ Cardinality(students') = up'[r].count
         /\ up'[r].count = Len(up[r].data)]_vars

\* A second upload, overlapping nothing, has replaced the records of the first.
C1_Witness ==
  /\ up[1].status = 200 /\ up[1].count = 1
  /\ up[2].status = 200 /\ up[2].count = 2 /\ ~up[2].overlapped
  /\ Cardinality(students) = 2
  /\ DocsOf(students, 1) = {}

\* C2 as claimed: an upload request answered by server.js's handler with a
\* file attached has exactly one history entry when it has responded.
C2_ExactlyOneEntry ==
  \A r \in Requests :
    (app = "server.js" /\ AnsweredWithFile(r)) => Cardinality(EntriesOf(history, r)) = 1

\* C2, amended: no request ever has two history entries, and a request
\* answered by server.js's handler with a file attached leaves exactly one
\* entry when the history write it ends with succeeds and none when that write
\* fails (the failure is logged and swallowed).
C2_AtMostOneEntry ==
  /\ [](\A r \in Requests : Cardinality(EntriesOf(history, r)) <= 1)
  /\ [][\A r \in Requests :
          (app = "server.js" /\ Responds(r) /\ up[r].pc \in {"create", "catch"}) =>
            Cardinality(EntriesOf(history', r)) = IF Connected THEN 1 ELSE 0]_vars

\* Both outcomes of the best-effort write: an answered request with its one
\* entry, and an answered request whose entry was lost.
C2_Witness ==
  /\ app = "server.js"
  /\ AnsweredWithFile(1) /\ up[1].status = 500 /\ EntriesOf(history, 1) = {}
  /\ AnsweredWithFile(2) /\ up[2].status = 200 /\ Cardinality(EntriesOf(history, 2)) = 1

\* C3: the history entry of an upload request matches the request's outcome:
\* 'success' exactly with the success response, and then students_count is
\* the number of normalized rows, all of which were inserted; 'error' exactly
\* with the 500 response, and then students_count is 0.
C3_EntryMatchesOutcome ==
  /\ [](\A i \in 1..Len(history) :
          LET e == history[i]
              r == e.req
          IN  /\ up[r].pc = "done"
              /\ e.status = "success" <=> up[r].status = 200
              /\ e.status = "error" <=> up[r].status = 500
              /\ e.status = "success" => e.students_count = up[r].count
              /\ e.status = "error" => e.students_count = 0)
  /\ [][\A r \in Requests :
          (app = "server.js" /\ up[r].pc = "insertMany" /\ up'[r].pc = "create") =>
            Cardinality(DocsOf(students', r)) = Len(up[r].data)]_vars
  /\ [][\A r \in Requests :
          (app = "server.js" /\ Responds(r) /\ up'[r].status = 200) =>
            up'[r].count = Len(up[r].data)]_vars

\* A 'success' entry counting two rows and an 'error' entry counting none.
C3_Witness ==
  /\ Len(history) = 2
  /\ history[1].status = "success" /\ history[1].students_count = 2
  /\ history[2].status = "error" /\ history[2].students_count = 0
  /\ up[history[2].req].status = 500

\* The step handles a PUT or DELETE /api/students/:id request.
Edits == edits' = edits + 1 /\ res'.op \in {"PUT", "DELETE"}

\* C4 as claimed: for every id that names no stored record, PUT and DELETE
\* /api/students/:id answer 404 and change no record and no history entry
\* (stated here for requests handled while the database is connected).
C4_NotFound404 ==
  [][(Edits /\ res'.id # "stored" /\ Connected) =>
       (res'.status = 404 /\ students' = students /\ history' = history)]_vars

\* C5: each stored record's percentage is round(marks_obtained / total_marks
\* * 100, 2) of that record's own stored marks (Infinity when total_marks is
\* 0 and marks_obtained is not).
C5_PercentageOfStoredMarks ==
  \A d \in students :
    /\ d.total_marks.t = "number" /\ d.marks_obtained.t = "number"
    /\ IF d.total_marks.n = 0
         THEN d.marks_obtained.n # 0 /\ d.percentage = Infinity
         ELSE IsRounded(d.percentage, d.marks_obtained.n, d.total_marks.n)

\* A PUT has rewritten the marks of an uploaded record, and the record holds
\* the percentage of the new marks.
C5_Witness ==
  /\ res.op = "PUT" /\ res.status = 200
  /\ \E d \in students :
       /\ d.total_marks = Num(50) /\ d.marks_obtained = Num(25) /\ d.percentage = Num(5000)

\* C7 as claimed: an upload with no file, or with a file of a media type
\* outside the accepted three, is answered 400 and leaves no history entry.
C7_Rejected400 ==
  \A r \in Requests :
    (up[r].pc = "done" /\ up[r].message \in
       {"No file uploaded", "Invalid file type. Only Excel and CSV files allowed."})
    => (up[r].status = 400 /\ EntriesOf(history, r) = {})

\* C8: no two stored records share a student_id; an insertMany of rows that
\* repeat a student_id fails, and so does a PUT that gives a record the
\* student_id of another record, which it leaves unchanged.
HasRepeat(docs) == \E i, j \in 1..Len(docs) : i # j /\ docs[i].student_id = docs[j].student_id

C8_UniqueStudentId ==
  /\ [](\A d, e \in students : d.student_id = e.student_id => d = e)
  /\ [][\A r \in Requests :
          (up[r].pc = "insertMany" /\ up'[r].pc # "insertMany" /\ HasRepeat(up[r].data)) =>
            (up'[r].pc = "catch" \/ (up'[r].pc = "done" /\ up'[r].status = 500))]_vars
  /\ [][(Edits /\ res'.op = "PUT" /\ res'.id = "stored" /\ res'.dup) =>
          (res'.status = 500 /\ students' = students)]_vars

\* An upload that repeated a student_id has failed with its first row stored,
\* and a PUT that would have duplicated a student_id was answered 500.
C8_Witness ==
  /\ up[1].status = 200 /\ up[1].count = 2
  /\ res.op = "PUT" /\ res.status = 500 /\ res.id = "stored" /\ res.dup
  /\ Cardinality(students) = 2

\* C9: an upload's deleteMany and insertMany are two steps.  The first
\* empties the collection and the second adds to whatever the collection then
\* holds, so the collection holds documents of two uploads only when those
\* uploads overlapped another request; such a collection is reachable and
\* outlives both success responses.
C9_MixedOnlyWhenOverlapped ==
  /\ [](\A p, q \in Requests :
          (p # q /\ DocsOf(students, p) # {} /\ DocsOf(students, q) # {}) =>
            (up[p].overlapped /\ up[q].overlapped))
  /\ [][\A r \in Requests :
          /\ (up[r].pc = "deleteMany" /\ up'[r].pc = "insertMany") => students' = {}
          /\ (up[r].pc = "insertMany" /\ up'[r].pc # "insertMany") =>
               (students \subseteq students' /\ students' \ students \subseteq DocsOf(students', r))]_vars

\* Both uploads were answered with success and the collection holds a
\* document of each.
C9_Witness ==
  /\ up[1].pc = "done" /\ up[1].status = 200
  /\ up[2].pc = "done" /\ up[2].status = 200
  /\ DocsOf(students, 1) # {} /\ DocsOf(students, 2) # {}
  /\ GetStudentsResponse.status = 200 /\ GetStudentsResponse.body = students

\* Request r takes a step of an upload that fails before its first store
\* command: server.js enters or leaves its catch with the normalizer's or the
\* readyState check's error; part_000 answers the normalizer's error.
beforePersistence == {"Failed to process Excel file", "Database not connected"}
FailsBeforePersistence(r) ==
  \/ up[r].pc = "idle" /\ up'[r].pc = "catch"
  \/ up[r].pc = "catch" /\ up'[r].pc = "done" /\ up[r].message \in beforePersistence
  \/ up[r].pc = "idle" /\ up'[r].pc = "done" /\ up'[r].message = "Failed to process file"

\* C10: an upload received by server.js while the connection is not in state
\* 1 never goes on to deleteMany, and the steps of an upload that fails before
\* persistence leave the student collection as it is and change the history
\* by at most appending the request's one 'error' entry with students_count 0.
C10_NoWriteBeforePersistence ==
  /\ [][\A r \in Requests :
          (app = "server.js" /\ up[r].pc = "idle" /\ up'[r].pc \notin {"idle", "done"}
             /\ readyState # 1) =>
            (up'[r].pc = "catch" /\ up'[r].message \in beforePersistence)]_vars
  /\ [][\A r \in Requests :
          FailsBeforePersistence(r) =>
            /\ students' = students
            /\ \/ history' = history
               \/ /\ up'[r].pc = "done" /\ EntriesOf(history, r) = {}
                  /\ Len(history') = Len(history) + 1
                  /\ SubSeq(history', 1, Len(history)) = history
                  /\ history'[Len(history')].req = r
                  /\ history'[Len(history')].status = "error"
                  /\ history'[Len(history')].students_count = 0]_vars

\* An upload refused for the connection's state was answered 500 and left
\* one 'error' entry, and the records of the upload before it are all there.
C10_Witness ==
  /\ up[1].status = 200 /\ up[1].count = 2
  /\ up[2].pc = "done" /\ up[2].status = 500 /\ up[2].message = "Database not connected"
  /\ Cardinality(DocsOf(students, 1)) = 2
  /\ Cardinality(EntriesOf(history, 2)) = 1

=============================================================================
